---- MODULE Spec2Model ----
(***************************************************************************)
(* Model of the DeepScrape crawl engine:                                   *)
(*   - URLManager   (webscraper/url/url_manager.py): the URL frontier      *)
(*   - CrawlerManager.start_crawl (webscraper/manager/crawler_manager.py)  *)
(*     with KeywordSpider.parse, DataProcessor.process_item and            *)
(*     StorageManager.save_data as its collaborators.                      *)
(*                                                                         *)
(* Spec      : a URLManager driven by arbitrary calls of its methods.      *)
(* SpecCrawl : one CrawlerManager.start_crawl run on a fresh URLManager,   *)
(*             with stop_crawling callable at any point.                   *)
(* SpecCrawlEnv : the same run with a page and an analyzer that can fail.  *)
(***************************************************************************)
EXTENDS Integers, Sequences, FiniteSets, TLC

\* ---------------------------------------------------------------- bounds
\* largest max_urls a URLManager is constructed with
MaxCap == 2
\* longest list handed to one add_urls call
MaxArgLen == 2
\* how often one URL may be admitted to the queue before the driver stops adding
MaxAdmit == 2
\* longest seed list handed to start_crawl
MaxSeeds == 3
\* longest keyword list a KeywordMatchingPipeline is configured with
MaxKeywords == 2
\* longest page content, in characters
MaxTextLen == 2
\* number of items one pipeline chain is handed
MaxItems == 2
\* content lengths are drawn from 0..MaxLenOffset, from within MaxLenOffset
\* of the divisor, and twice the divisor
MaxLenOffset == 3
\* a content handed to the parser is made of at most MaxWords words
MaxWords == 2
\* a non-JSON response of the API has at most MaxLines lines
MaxLines == 2
\* number of workers sharing one URLManager
NumWorkers == 2
\* longest network location of a URL handed to is_valid_url
MaxHostLen == 3
\* a text handed to clean_text is made of at most MaxHtmlLen pieces
MaxHtmlLen == 3

\* ---------------------------------------------------------------- values
\* URLs are strings; the empty string is a legal str argument
URLS == {"", "a", "b"}
\* the URLs the URLManager driver of Spec passes (URLManager treats every str alike)
ApiUrls == {"a", "b"}
\* Python's None, the empty sentinel of get_next_url
None == "<None>"
\* field names requested by the caller (--fields)
FIELDS == {"title", "url"}

VARIABLES
    queue,      \* URLManager.queue   (deque, as a sequence)
    visited,    \* URLManager.visited (set)
    max,        \* URLManager.max
    last,       \* history: the last completed call [op, arg, ret]
    admitted,   \* history: per URL, how often it was appended to queue
    pc,         \* position of start_crawl: idle, loop, flush, done
    fields,     \* start_crawl argument: fields
    rows,       \* start_crawl local: rows
    spiders,    \* len(CrawlerManager.spiders)
    saved,      \* history: arguments of the storage.save_data calls, in order
    fetched,    \* history: spider.parse calls [url, ok], in order
    stopAt,     \* history: the latest stop_crawling call, [n |-> Len(fetched), at |-> pc]
    conf,       \* item pipeline: what the run was configured with (spider arguments)
    pipe,       \* item pipeline: the fields of the pipeline objects
    inp,        \* item pipeline: the item last handed to process_item
    outp        \* item pipeline: what that call did, [kind, item]

vars == <<queue, visited, max, last, admitted, pc, fields, rows, spiders, saved, fetched, stopAt,
          conf, pipe, inp, outp>>

urlVars   == <<queue, visited, max>>
crawlVars == <<pc, fields, rows, spiders, saved, fetched, stopAt>>
pipeVars  == <<conf, pipe, inp, outp>>

\* ---------------------------------------------------------------- helpers
Range(s) == {s[i] : i \in DOMAIN s}

Count(s, x) == Cardinality({i \in DOMAIN s : s[i] = x})

SeqsUpTo(S, n) == UNION {[1..k -> S] : k \in 0..n}

\* Python truthiness of a str-or-None value: `not url`
Falsy(x) == x = None \/ x = ""

\* ---------------------------------------------------------------- URLManager
\* url_manager.py:13, with the membership test dropped
admits_ignoring_visited(u, q, v, m) == Len(q) < m

\* url_manager.py:13, with <= for <
admits_off_by_one(u, q, v, m) == u \notin v /\ Len(q) <= m

\* url_manager.py:13, capping by the size of visited as should_visit does
admits_capped_by_visited(u, q, v, m) == u \notin v /\ Cardinality(v) < m

\* url_manager.py:13, with the length test dropped
admits_uncapped(u, q, v, m) == u \notin v

\* url_manager.py:13  `u not in self.visited and len(self.queue) < self.max`
admits(u, q, v, m) == u \notin v /\ Len(q) < m

\* url_manager.py:11-14  the queue after add_urls(urls)
RECURSIVE add_urls(_, _, _, _)
add_urls(q, v, m, urls) ==
    IF urls = <<>> THEN q
    ELSE add_urls(IF admits(Head(urls), q, v, m) THEN Append(q, Head(urls)) ELSE q,
                  v, m, Tail(urls))

\* url_manager.py:15-16, returning the newest entry instead of the oldest
get_next_url_newest(q) == IF q # <<>> THEN q[Len(q)] ELSE None

\* url_manager.py:15-16  return value of get_next_url
get_next_url(q) == IF q # <<>> THEN Head(q) ELSE None

\* url_manager.py:15-16  the queue after get_next_url
popleft(q) == IF q # <<>> THEN Tail(q) ELSE q

\* url_manager.py:17
mark_visited(v, u) == v \cup {u}

\* url_manager.py:18, with <= for <
should_visit_at_cap(u, v, m) == u \notin v /\ Cardinality(v) <= m

\* url_manager.py:18  `(u not in self.visited) and (len(self.visited) < self.max)`
should_visit(u, v, m) == u \notin v /\ Cardinality(v) < m

\* admissions recorded for a call that turned queue q into q2 by appending
Admit(adm, q, q2) == [u \in URLS |-> adm[u] + Count(q2, u) - Count(q, u)]

\* url_manager.py:7-10  URLManager(max_urls)
URLManagerInit ==
    /\ queue = <<>>
    /\ visited = {}
    /\ max \in 0..MaxCap

CrawlIdle ==
    /\ pc = "idle"
    /\ fields = {}
    /\ rows = <<>>
    /\ spiders = 0
    /\ saved = <<>>
    /\ fetched = <<>>
    /\ stopAt = [n |-> -1, at |-> "never"]

\* no item pipeline has been built
PipeIdle ==
    /\ conf = [kind |-> "none"]
    /\ pipe = [kind |-> "none"]
    /\ inp = [kind |-> "none"]
    /\ outp = [kind |-> "none"]

Init ==
    /\ URLManagerInit
    /\ last = [op |-> "init", arg |-> <<>>, ret |-> None]
    /\ admitted = [u \in URLS |-> 0]
    /\ CrawlIdle
    /\ PipeIdle

\* a call url_manager.add_urls(urls)
AddUrls ==
    \E urls \in SeqsUpTo(ApiUrls, MaxArgLen) :
        LET q2 == add_urls(queue, visited, max, urls) IN
        /\ \A u \in URLS : Admit(admitted, queue, q2)[u] <= MaxAdmit
        /\ queue' = q2
        /\ admitted' = Admit(admitted, queue, q2)
        /\ last' = [op |-> "add_urls", arg |-> urls, ret |-> None]
        /\ UNCHANGED <<visited, max>>
        /\ UNCHANGED crawlVars
        /\ UNCHANGED pipeVars

\* a call url_manager.get_next_url()
GetNextUrl ==
    /\ last' = [op |-> "get_next_url", arg |-> <<>>, ret |-> get_next_url(queue)]
    /\ queue' = popleft(queue)
    /\ UNCHANGED <<visited, max, admitted>>
    /\ UNCHANGED crawlVars
    /\ UNCHANGED pipeVars

\* a call url_manager.mark_visited(u)
MarkVisited ==
    \E u \in ApiUrls :
        /\ visited' = mark_visited(visited, u)
        /\ last' = [op |-> "mark_visited", arg |-> <<u>>, ret |-> None]
        /\ UNCHANGED <<queue, max, admitted>>
        /\ UNCHANGED crawlVars
        /\ UNCHANGED pipeVars

\* a call url_manager.should_visit(u)
ShouldVisit ==
    \E u \in ApiUrls :
        /\ last' = [op |-> "should_visit", arg |-> <<u>>, ret |-> should_visit(u, visited, max)]
        /\ UNCHANGED <<queue, visited, max, admitted>>
        /\ UNCHANGED crawlVars
        /\ UNCHANGED pipeVars

Next == AddUrls \/ GetNextUrl \/ MarkVisited \/ ShouldVisit

Spec == Init /\ [][Next]_vars

\* ---------------------------------------------------------------- URLManager shared by workers
RECURSIVE SumOver(_, _)
SumOver(f, S) ==
    IF S = {} THEN 0
    ELSE LET x == CHOOSE y \in S : TRUE IN f[x] + SumOver(f, S \ {x})

\* number of queue entries admitted so far
SeededCount == SumOver(admitted, URLS)

Workers == 1..NumWorkers

\* the URLs the workers still hold in running add_urls calls
RECURSIVE Pending(_)
Pending(ws) ==
    IF ws = {} THEN 0
    ELSE LET w == CHOOSE x \in ws : TRUE IN Len(pipe.w[w].urls) + Pending(ws \ {w})

\* url_manager.py:7-10  one URLManager, every worker outside any call
InitWorkers ==
    /\ URLManagerInit
    /\ last = [op |-> "init", arg |-> <<>>, ret |-> None]
    /\ admitted = [u \in URLS |-> 0]
    /\ CrawlIdle
    /\ conf = [kind |-> "workers"]
    /\ pipe = [kind |-> "workers", w |-> [i \in Workers |-> [pc |-> "idle", urls |-> <<>>]]]
    /\ inp = [kind |-> "none"]
    /\ outp = [kind |-> "none"]

\* url_manager.py:11-12  a worker enters add_urls(urls)
WorkerAddUrls(w) ==
    /\ pipe.w[w].pc = "idle"
    /\ \E urls \in SeqsUpTo(ApiUrls, MaxArgLen) \ {<<>>} :
          /\ SeededCount + Pending(Workers) + Len(urls) <= MaxAdmit + MaxCap
          /\ pipe' = [pipe EXCEPT !.w[w] = [pc |-> "check", urls |-> urls]]
    /\ UNCHANGED <<conf, inp, outp>>
    /\ UNCHANGED <<queue, visited, max, last, admitted>>
    /\ UNCHANGED crawlVars

\* url_manager.py:12-13  the loop head and the test of the next url
WorkerCheck(w) ==
    /\ pipe.w[w].pc = "check"
    /\ pipe' = IF pipe.w[w].urls = <<>>
               THEN [pipe EXCEPT !.w[w].pc = "idle"]
               ELSE IF admits(Head(pipe.w[w].urls), queue, visited, max)
               THEN [pipe EXCEPT !.w[w].pc = "append"]
               ELSE [pipe EXCEPT !.w[w].urls = Tail(@)]
    /\ UNCHANGED <<conf, inp, outp>>
    /\ UNCHANGED <<queue, visited, max, last, admitted>>
    /\ UNCHANGED crawlVars

\* url_manager.py:14  self.queue.append(u), after the test succeeded
WorkerAppend(w) ==
    /\ pipe.w[w].pc = "append"
    /\ queue' = Append(queue, Head(pipe.w[w].urls))
    /\ admitted' = Admit(admitted, queue, queue')
    /\ pipe' = [pipe EXCEPT !.w[w] = [pc |-> "check", urls |-> Tail(pipe.w[w].urls)]]
    /\ UNCHANGED <<conf, inp, outp>>
    /\ UNCHANGED <<visited, max, last>>
    /\ UNCHANGED crawlVars

\* url_manager.py:15-16  a worker calls get_next_url
WorkerGetNextUrl(w) ==
    /\ pipe.w[w].pc = "idle"
    /\ last' = [op |-> "get_next_url", arg |-> <<>>, ret |-> get_next_url(queue)]
    /\ queue' = popleft(queue)
    /\ UNCHANGED <<conf, pipe, inp, outp>>
    /\ UNCHANGED <<visited, max, admitted>>
    /\ UNCHANGED crawlVars

NextWorkers ==
    \E w \in Workers : WorkerAddUrls(w) \/ WorkerCheck(w) \/ WorkerAppend(w) \/ WorkerGetNextUrl(w)

SpecWorkers == InitWorkers /\ [][NextWorkers]_vars

\* ---------------------------------------------------------------- crawl collaborators
\* keyword_spider.py:17-26, yielding an item although the fetch failed
spider_parse_ignoring_failure(u, ok) == <<[url |-> u]>>

\* keyword_spider.py:17-26  the items the generator yields for url u; ok is the
\* outcome of httpx.get / raise_for_status (an exception there ends the
\* generator without an item).  Title and text are page data.
spider_parse(u, ok) == IF ok THEN <<[url |-> u]>> ELSE <<>>

\* Python's None where an item is expected (process_item's `return None`)
NoItem == [url |-> None]

\* deepseek/parser.py:15-16 and deepseek/adapter.py:7-9  {k: "" for k in fields}
parse_data(fs) == [k \in fs |-> ""]

\* schema_validator.py:7-11
validate(data, required) == \A k \in required : k \in DOMAIN data

\* data_processor.py:30-38  the item, or None; with the adapter of
\* deepseek/adapter.py parse_data does not raise for a list of field names
process_item(item, fs) ==
    IF validate(parse_data(fs), fs) THEN item ELSE item

\* CrawlItem.to_dict (webscraper/models/crawl_item.py): the row of an item
to_dict(item) == [url |-> item.url]

\* crawler_manager.py:26-29  the rows one parsed url adds
RECURSIVE rows_of(_, _)
rows_of(items, fs) ==
    IF items = <<>> THEN <<>>
    ELSE LET processed == process_item(Head(items), fs) IN
         (IF processed # NoItem THEN <<to_dict(processed)>> ELSE <<>>)
             \o rows_of(Tail(items), fs)

\* crawler_manager.py:30, saving whatever rows holds
should_save_always(rs) == TRUE

\* crawler_manager.py:30  `if rows:`
should_save(rs) == rs # <<>>

\* ---------------------------------------------------------------- CrawlerManager
\* crawler_manager.py:17-21  start_crawl up to the loop
StartCrawl ==
    \E urls \in SeqsUpTo(URLS, MaxSeeds), fs \in SUBSET FIELDS :
        LET q2 == add_urls(queue, visited, max, urls) IN
        /\ pc = "idle"
        /\ spiders' = spiders + 1
        /\ fields' = fs
        /\ queue' = q2
        /\ admitted' = Admit(admitted, queue, q2)
        /\ rows' = <<>>
        /\ last' = [op |-> "start_crawl", arg |-> urls, ret |-> None]
        /\ pc' = "loop"
        /\ UNCHANGED <<visited, max, saved, fetched, stopAt>>
        /\ UNCHANGED pipeVars

\* crawler_manager.py:23-25  get_next_url returned a falsy value: break
LoopBreak ==
    /\ pc = "loop"
    /\ Falsy(get_next_url(queue))
    /\ queue' = popleft(queue)
    /\ pc' = "flush"
    /\ UNCHANGED <<visited, max, last, admitted, fields, rows, spiders, saved, fetched, stopAt>>
    /\ UNCHANGED pipeVars

\* crawler_manager.py:23-29  one iteration that fetches and processes a url
LoopBody ==
    /\ pc = "loop"
    /\ ~Falsy(get_next_url(queue))
    /\ \E ok \in BOOLEAN :
          LET u == get_next_url(queue) IN
          /\ fetched' = Append(fetched, [url |-> u, ok |-> ok])
          /\ rows' = rows \o rows_of(spider_parse(u, ok), fields)
    /\ queue' = popleft(queue)
    /\ UNCHANGED <<visited, max, last, admitted, pc, fields, spiders, saved, stopAt>>
    /\ UNCHANGED pipeVars

\* crawler_manager.py:30-32  export and return
Flush ==
    /\ pc = "flush"
    /\ saved' = IF should_save(rows) THEN Append(saved, rows) ELSE saved
    /\ pc' = "done"
    /\ UNCHANGED <<queue, visited, max, last, admitted, fields, rows, spiders, fetched, stopAt>>
    /\ UNCHANGED pipeVars

\* crawler_manager.py:34-36  stop_crawling: returns True, touches no state
StopCrawling ==
    /\ stopAt' = [n |-> Len(fetched), at |-> pc]
    /\ UNCHANGED <<queue, visited, max, last, admitted, pc, fields, rows, spiders, saved, fetched>>
    /\ UNCHANGED pipeVars

\* crawler_manager.py:40  the snapshot get_crawl_status returns
get_crawl_status(sp) == [spiders |-> sp]

\* crawler_manager.py:38-40  get_crawl_status, callable at any time
GetCrawlStatus ==
    /\ outp' = [kind |-> "status", at |-> pc, ret |-> get_crawl_status(spiders)]
    /\ UNCHANGED <<conf, pipe, inp>>
    /\ UNCHANGED <<queue, visited, max, last, admitted>>
    /\ UNCHANGED crawlVars

NextCrawl == StartCrawl \/ LoopBreak \/ LoopBody \/ Flush \/ StopCrawling \/ GetCrawlStatus

SpecCrawl == Init /\ [][NextCrawl]_vars

\* ---------------------------------------------------------------- crawl with a failing environment
\* what the fetched page is like: "ok", or "empty_title" (<title></title>,
\* for which soup.title.string is None)
PageOutcomes == {"ok", "empty_title"}

\* what deepseek.parse_data does for one item: returns a record with every
\* requested field, raises, or returns a record without the requested fields
AnalyzerOutcomes == {"ok", "raises", "missing"}

\* keyword_spider.py:23-26  the statements after the try block raise
\* (None.strip() at line 24) and nothing in parse catches it
spider_parse_raises(ok, page) == ok /\ page = "empty_title"

\* deepseek/parser.py:15-16  the record parse_data returns when it returns
analyzer_data(a, fs) == IF a = "missing" THEN [k \in {} |-> ""] ELSE parse_data(fs)

\* data_processor.py:30-38  process_item with an analyzer outcome a:
\* `except Exception: return None`, `if validate: return item`, `return item`
process_item_with(item, fs, a) ==
    IF a = "raises" THEN NoItem
    ELSE IF validate(analyzer_data(a, fs), fs) THEN item
    ELSE item

\* crawler_manager.py:26-29  the rows one parsed url adds, analyzer outcome a
RECURSIVE rows_of_with(_, _, _)
rows_of_with(items, fs, a) ==
    IF items = <<>> THEN <<>>
    ELSE LET processed == process_item_with(Head(items), fs, a) IN
         (IF processed # NoItem THEN <<to_dict(processed)>> ELSE <<>>)
             \o rows_of_with(Tail(items), fs, a)

\* crawler_manager.py:23-29  one iteration; fetched records the outcomes and
\* the number of rows the iteration appended
LoopBodyEnv ==
    /\ pc = "loop"
    /\ ~Falsy(get_next_url(queue))
    /\ \E ok \in BOOLEAN, page \in PageOutcomes, a \in AnalyzerOutcomes :
          LET u == get_next_url(queue)
              new == rows_of_with(spider_parse(u, ok), fields, a) IN
          /\ ~spider_parse_raises(ok, page)
          /\ ~ok => (page = "ok" /\ a = "ok")
          /\ fetched' = Append(fetched, [url |-> u, ok |-> ok, page |-> page,
                                         analyzer |-> a, n |-> Len(new)])
          /\ rows' = rows \o new
    /\ queue' = popleft(queue)
    /\ UNCHANGED <<visited, max, last, admitted, pc, fields, spiders, saved, stopAt>>
    /\ UNCHANGED pipeVars

\* crawler_manager.py:26  the exception raised inside spider.parse leaves
\* the for loop, the while loop and start_crawl
LoopRaise ==
    /\ pc = "loop"
    /\ ~Falsy(get_next_url(queue))
    /\ \E ok \in BOOLEAN, page \in PageOutcomes :
          /\ spider_parse_raises(ok, page)
          /\ fetched' = Append(fetched, [url |-> get_next_url(queue), ok |-> ok, page |-> page,
                                         analyzer |-> "ok", n |-> 0])
    /\ queue' = popleft(queue)
    /\ pc' = "raised"
    /\ UNCHANGED <<visited, max, last, admitted, fields, rows, spiders, saved, stopAt>>
    /\ UNCHANGED pipeVars

\* what storage.save_data does: writes the artifact and returns, or raises
\* (os.makedirs or the exporter's write fails)
SaveOutcomes == {"ok", "raises"}

\* storage_manager.py:15-24  save_data has no try block: what the caller
\* gets back, None or the exception
save_data(outcome) == IF outcome = "raises" THEN "raised" ELSE None

\* crawler_manager.py:31-32, as if the call were wrapped in try/except
after_save_data_swallowing(ret) == "done"

\* crawler_manager.py:31-32  no try block around save_data: an exception
\* leaves start_crawl, otherwise line 32 returns
after_save_data(ret) == IF ret = "raised" THEN "export_raised" ELSE "done"

\* crawler_manager.py:30-32  export and return, with an exporter that can fail;
\* outp records what the save_data call gave back
FlushEnv ==
    /\ pc = "flush"
    /\ \/ /\ should_save(rows)
          /\ \E outcome \in SaveOutcomes :
                /\ saved' = Append(saved, rows)
                /\ outp' = [kind |-> "save_data", ret |-> save_data(outcome)]
                /\ pc' = after_save_data(save_data(outcome))
       \/ /\ ~should_save(rows)
          /\ pc' = "done"
          /\ UNCHANGED <<saved, outp>>
    /\ UNCHANGED <<queue, visited, max, last, admitted, fields, rows, spiders, fetched, stopAt>>
    /\ UNCHANGED <<conf, pipe, inp>>

NextCrawlEnv == StartCrawl \/ LoopBreak \/ LoopBodyEnv \/ LoopRaise \/ FlushEnv \/ StopCrawling

SpecCrawlEnv == Init /\ [][NextCrawlEnv]_vars

\* start_crawl is sequential code: once called, and as long as the calls it
\* makes come back (by a return or by an exception), it executes its next
\* statement.  Calls from outside (start_crawl itself, stop_crawling) are
\* under no such obligation.
SpecCrawlLive ==
    /\ SpecCrawlEnv
    /\ WF_vars(LoopBreak)
    /\ WF_vars(LoopBodyEnv \/ LoopRaise)
    /\ WF_vars(FlushEnv)

\* ---------------------------------------------------------------- strings
\* a str is the sequence of its characters
Chars == {"p", "P", "r", " "}

UpperCase == <<"A", "B", "C", "D", "E", "F", "G", "H", "I", "J", "K", "L", "M", "N", "O", "P", "Q", "R", "S", "T", "U", "V", "W", "X", "Y", "Z">>

LowerCase == <<"a", "b", "c", "d", "e", "f", "g", "h", "i", "j", "k", "l", "m", "n", "o", "p", "q", "r", "s", "t", "u", "v", "w", "x", "y", "z">>

\* str.lower() on one character
LowerChar(c) ==
    IF \E i \in DOMAIN UpperCase : UpperCase[i] = c
    THEN LowerCase[CHOOSE i \in DOMAIN UpperCase : UpperCase[i] = c]
    ELSE c

\* str.lower()
Lower(str) == [i \in DOMAIN str |-> LowerChar(str[i])]

\* Python's `k in text` for two str
Contains(k, text) ==
    \E i \in 0..(Len(text) - Len(k)) : SubSeq(text, i + 1, i + Len(k)) = k

SetMin(S) == CHOOSE x \in S : \A y \in S : x <= y

SetMax(S) == CHOOSE x \in S : \A y \in S : y <= x

\* str.strip(), the blank being the only whitespace of the texts drawn
Strip(str) ==
    LET N == {i \in DOMAIN str : str[i] # " "} IN
    IF N = {} THEN <<>> ELSE SubSeq(str, SetMin(N), SetMax(N))

\* [a-zA-Z]: the texts drawn hold no digit and no underscore, so these are
\* the word characters of \b as well
IsLetter(c) == c \in Range(UpperCase) \cup Range(LowerCase)

\* the maximal runs of letters of a str, as pairs of positions
LetterRuns(str) ==
    {<<i, j>> \in (DOMAIN str) \X (DOMAIN str) :
        /\ i <= j
        /\ \A k \in i..j : IsLetter(str[k])
        /\ (i = 1 \/ ~IsLetter(str[i - 1]))
        /\ (j = Len(str) \/ ~IsLetter(str[j + 1]))}

\* dict.get(key, default)
Get(d, k, default) == IF k \in DOMAIN d THEN d[k] ELSE default

\* ---------------------------------------------------------------- DeepSeekParser
POSITIVE == <<"p", "o", "s", "i", "t", "i", "v", "e">>

NEUTRAL == <<"n", "e", "u", "t", "r", "a", "l">>

NEGATIVE == <<"n", "e", "g", "a", "t", "i", "v", "e">>

\* deepseek_parser.py:179  positive_words
positive_words == {
    <<"g", "o", "o", "d">>, <<"g", "r", "e", "a", "t">>, <<"e", "x", "c", "e", "l", "l", "e", "n", "t">>,
    <<"a", "m", "a", "z", "i", "n", "g">>, <<"w", "o", "n", "d", "e", "r", "f", "u", "l">>, <<"f", "a", "n", "t", "a", "s", "t", "i", "c">>}

\* deepseek_parser.py:180  negative_words
negative_words == {
    <<"b", "a", "d">>, <<"t", "e", "r", "r", "i", "b", "l", "e">>, <<"a", "w", "f", "u", "l">>,
    <<"h", "o", "r", "r", "i", "b", "l", "e">>, <<"p", "o", "o", "r">>, <<"d", "i", "s", "a", "p", "p", "o", "i", "n", "t", "i", "n", "g">>}

\* deepseek_parser.py:254-259  stop_words
stop_words == {
    <<"t", "h", "e">>, <<"a">>, <<"a", "n">>, <<"a", "n", "d">>, <<"o", "r">>, <<"b", "u", "t">>,
    <<"i", "n">>, <<"o", "n">>, <<"a", "t">>, <<"t", "o">>, <<"f", "o", "r">>, <<"o", "f">>,
    <<"w", "i", "t", "h">>, <<"b", "y">>, <<"i", "s">>, <<"a", "r", "e">>, <<"w", "a", "s">>, <<"w", "e", "r", "e">>,
    <<"b", "e">>, <<"b", "e", "e", "n">>, <<"b", "e", "i", "n", "g">>, <<"h", "a", "v", "e">>, <<"h", "a", "s">>, <<"h", "a", "d">>,
    <<"d", "o">>, <<"d", "o", "e", "s">>, <<"d", "i", "d">>, <<"w", "i", "l", "l">>, <<"w", "o", "u", "l", "d">>, <<"c", "o", "u", "l", "d">>,
    <<"s", "h", "o", "u", "l", "d">>, <<"m", "a", "y">>, <<"m", "i", "g", "h", "t">>, <<"m", "u", "s", "t">>, <<"s", "h", "a", "l", "l">>, <<"t", "h", "i", "s">>,
    <<"t", "h", "a", "t">>, <<"t", "h", "e", "s", "e">>, <<"t", "h", "o", "s", "e">>, <<"i">>, <<"y", "o", "u">>, <<"h", "e">>,
    <<"s", "h", "e">>, <<"i", "t">>, <<"w", "e">>, <<"t", "h", "e", "y">>, <<"m", "e">>, <<"h", "i", "m">>,
    <<"h", "e", "r">>, <<"u", "s">>, <<"t", "h", "e", "m">>}

\* datetime.now().isoformat()
NOW == "now"

\* the three values the analysis contract allows for a sentiment
SENTIMENTS == {POSITIVE, NEUTRAL, NEGATIVE}

\* deepseek_parser.py:185-190, rating a tie as mixed
fallback_sentiment_tie_mixed(content) ==
    LET pos_count == Cardinality({w \in positive_words : Contains(w, Lower(content))})
        neg_count == Cardinality({w \in negative_words : Contains(w, Lower(content))}) IN
    IF pos_count > neg_count THEN POSITIVE
    ELSE IF neg_count > pos_count THEN NEGATIVE
    ELSE <<"m", "i", "x", "e", "d">>

\* deepseek_parser.py:182-190  the sentiment of the rule-based parser
fallback_sentiment(content) ==
    LET pos_count == Cardinality({w \in positive_words : Contains(w, Lower(content))})
        neg_count == Cardinality({w \in negative_words : Contains(w, Lower(content))}) IN
    IF pos_count > neg_count THEN POSITIVE
    ELSE IF neg_count > pos_count THEN NEGATIVE
    ELSE NEUTRAL

\* deepseek_parser.py:193  re.findall(r'\b[A-Z][a-z]+\b', content), as a set;
\* the cut to ten entities applies to none of the contents drawn
fallback_entities(content) ==
    {SubSeq(content, r[1], r[2]) : r \in
        {q \in LetterRuns(content) :
            /\ q[1] < q[2]
            /\ content[q[1]] \in Range(UpperCase)
            /\ \A k \in (q[1] + 1)..q[2] : content[k] \in Range(LowerCase)}}

\* deepseek_parser.py:196  re.split(r'[.!?]+', content)[0]
first_sentence(content) ==
    LET T == {i \in DOMAIN content : content[i] \in {".", "!", "?"}} IN
    IF T = {} THEN content ELSE SubSeq(content, 1, SetMin(T) - 1)

\* deepseek_parser.py:197  the longest summary that is not cut
SUMMARY_MAX == 200

\* deepseek_parser.py:197 and 200  the summary of the rule-based parser
fallback_summary(content) ==
    LET s == first_sentence(content) IN
    Strip(IF Len(s) > SUMMARY_MAX THEN SubSeq(s, 1, SUMMARY_MAX) \o <<".", ".", ".">> ELSE s)

\* deepseek_parser.py:176  len(content.split())
word_count(content) ==
    Cardinality({i \in DOMAIN content : content[i] # " " /\ (i = 1 \/ content[i - 1] = " ")})

\* deepseek_parser.py:173-212  DeepSeekParser._fallback_parse
fallback_parse(content) ==
    [summary |-> fallback_summary(content),
     entities |-> fallback_entities(content),
     topics |-> <<>>,
     sentiment |-> fallback_sentiment(content),
     key_points |-> <<>>,
     structured_data |-> [word_count |-> word_count(content), content_type |-> "webpage",
                          parser_used |-> "fallback"],
     analysis_timestamp |-> NOW,
     parser_used |-> "fallback"]

\* deepseek_parser.py:167/169  line.split(':', 1)[1]
after_colon(line) ==
    SubSeq(line, SetMin({i \in DOMAIN line : line[i] = ":"}) + 1, Len(line))

SummaryKey == <<"s", "u", "m", "m", "a", "r", "y", ":">>

SentimentKey == <<"s", "e", "n", "t", "i", "m", "e", "n", "t", ":">>

\* deepseek_parser.py:164-169  one line of a non-JSON response
parse_line(result, rawline) ==
    LET line == Strip(rawline) IN
    IF Contains(SummaryKey, Lower(line))
    THEN [result EXCEPT !.summary = Strip(after_colon(line))]
    ELSE IF Contains(SentimentKey, Lower(line))
    THEN [result EXCEPT !.sentiment = Lower(Strip(after_colon(line)))]
    ELSE result

RECURSIVE parse_lines(_, _)
parse_lines(result, lines) ==
    IF lines = <<>> THEN result
    ELSE parse_lines(parse_line(result, Head(lines)), Tail(lines))

\* deepseek_parser.py:152-171  DeepSeekParser._parse_structured_text, of the
\* lines of the response text
parse_structured_text(lines) ==
    parse_lines([summary |-> <<>>, entities |-> {}, topics |-> <<>>, sentiment |-> NEUTRAL,
                 key_points |-> <<>>, structured_data |-> <<>>], lines)

\* deepseek_parser.py:138-150  DeepSeekParser._parse_ai_response: a response
\* holding a JSON object yields that object, any other text is read line by line
parse_ai_response(resp) ==
    IF resp.kind = "json" THEN resp.data ELSE parse_structured_text(resp.lines)

\* deepseek_parser.py:87-96  the result built from the parsed response
analysis_result(parsed_data) ==
    [summary |-> Get(parsed_data, "summary", <<>>),
     entities |-> Get(parsed_data, "entities", {}),
     topics |-> Get(parsed_data, "topics", <<>>),
     sentiment |-> Get(parsed_data, "sentiment", NEUTRAL),
     key_points |-> Get(parsed_data, "key_points", <<>>),
     structured_data |-> Get(parsed_data, "structured_data", <<>>),
     analysis_timestamp |-> NOW,
     parser_used |-> "deepseek"]

\* deepseek_parser.py:55-102  DeepSeekParser.parse_content; resp is what the
\* API call does: [kind |-> "error"] when it raises, else its response text
parse_content(enabled, content, resp) ==
    IF ~enabled THEN fallback_parse(content)
    ELSE IF resp.kind = "error" THEN fallback_parse(content)
    ELSE analysis_result(parse_ai_response(resp))

\* deepseek_parser.py:261  re.findall(r'\b[a-zA-Z]{3,}\b', content.lower()),
\* as the positions of the words
keyword_runs(content) == {r \in LetterRuns(content) : r[2] - r[1] >= 2}

\* deepseek_parser.py:262-266  the keys of word_freq: the words found that
\* are no stop words
counted_words(lower, runs) == {SubSeq(lower, r[1], r[2]) : r \in runs} \ stop_words

\* deepseek_parser.py:262-266  where each counted word occurs; word_freq is
\* the number of these positions, the dict holds the words in the order of
\* their first position
word_positions(lower, runs, ws) ==
    [w \in ws |-> {r[1] : r \in {q \in runs : SubSeq(lower, q[1], q[2]) = w}}]

\* deepseek_parser.py:269  the order of sorted(..., key=freq, reverse=True):
\* by falling frequency, words of one frequency in dict order
sorts_before(at, y, w) ==
    \/ Cardinality(at[y]) > Cardinality(at[w])
    \/ Cardinality(at[y]) = Cardinality(at[w]) /\ SetMin(at[y]) < SetMin(at[w])

\* deepseek_parser.py:269  sorted_words
sorted_by_freq(ws, at) ==
    [i \in 1..Cardinality(ws) |->
        CHOOSE w \in ws : 1 + Cardinality({y \in ws : sorts_before(at, y, w)}) = i]

\* deepseek_parser.py:261-269  the sorted words of a lower-cased content
sorted_counted(lower, runs, ws) == sorted_by_freq(ws, word_positions(lower, runs, ws))

\* deepseek_parser.py:261-269  the words of a content, sorted
sorted_words(content) ==
    sorted_counted(Lower(content), keyword_runs(content),
                   counted_words(Lower(content), keyword_runs(content)))

\* list[:n]
Take(list, n) == SubSeq(list, 1, IF Len(list) < n THEN Len(list) ELSE n)

\* deepseek_parser.py:214  the default of max_keywords
MAX_KEYWORDS == 10

\* deepseek_parser.py:251-270  DeepSeekParser._extract_keywords_fallback
extract_keywords_fallback(content) == Take(sorted_words(content), MAX_KEYWORDS)

\* deepseek_parser.py:214-249  DeepSeekParser.extract_keywords_ai; resp is
\* what the API call does: [kind |-> "error"] when it raises or answers
\* without a JSON array, else the array
extract_keywords_ai(enabled, content, resp) ==
    IF ~enabled THEN extract_keywords_fallback(content)
    ELSE IF resp.kind = "error" THEN extract_keywords_fallback(content)
    ELSE Take(resp.keywords, MAX_KEYWORDS)

\* ---------------------------------------------------------------- KeywordMatchingPipeline
\* the keywords a run can be configured with (any letter case, "" included)
KEYWORDS == {<<"p">>, <<"P">>, <<"r">>, <<"p", "r">>, <<>>}

\* spider.filter_by_keywords: the attribute is absent, True or False
SpiderFlags == {"absent", "true", "false"}

Titles == SeqsUpTo(Chars, 1)
Contents == SeqsUpTo(Chars, MaxTextLen)

\* items.py:48-66 and html_crawler.py:90-128  the item parse_item yields:
\* matched_keywords is [] by default and the spiders never set it
CrawlItem(u, title, content) ==
    [url |-> u, title |-> title, content |-> content, matched_keywords |-> <<>>,
     links_found |-> <<>>, depth |-> 0, crawl_time |-> NOW, loading_time |-> 0,
     ai_summary |-> <<>>, ai_entities |-> {}, ai_topics |-> <<>>, ai_sentiment |-> NEUTRAL,
     ai_key_points |-> <<>>, ai_structured_data |-> <<>>, ai_analysis_timestamp |-> "",
     ai_keywords |-> <<>>, enhanced_keywords |-> {}]

\* pipelines.py:29-32, taking the spider's default keyword when none is configured
KeywordMatching_init_with_default(keywords) ==
    IF keywords = <<>> THEN << <<"p">> >> ELSE [i \in DOMAIN keywords |-> Lower(keywords[i])]

\* pipelines.py:29-32  self.keywords after __init__(keywords)
KeywordMatching_init(keywords) == [i \in DOMAIN keywords |-> Lower(keywords[i])]

\* pipelines.py:45, without .lower()
text_to_search_as_is(item) == item.title \o <<" ">> \o item.content

\* pipelines.py:45  f"{title} {content}".lower()
text_to_search(item) == Lower(item.title \o <<" ">> \o item.content)

\* pipelines.py:48-51  the loop over self.keywords
RECURSIVE matching(_, _)
matching(keywords, text) ==
    IF keywords = <<>> THEN <<>>
    ELSE (IF Contains(Head(keywords), text) THEN <<Head(keywords)>> ELSE <<>>)
             \o matching(Tail(keywords), text)

\* pipelines.py:56, never filtering
strict_filter_off(flag) == FALSE

\* pipelines.py:56  hasattr(spider, 'filter_by_keywords') and spider.filter_by_keywords
strict_filter(flag) == flag = "true"

\* pipelines.py:40-60  KeywordMatchingPipeline.process_item: the item as the
\* call leaves it, and whether it was returned or DropItem was raised
KeywordMatching_process_item(keywords, flag, item) ==
    IF keywords = <<>> THEN [kind |-> "forward", item |-> item]
    ELSE LET matched == matching(keywords, text_to_search(item))
             item2 == [item EXCEPT !.matched_keywords = matched] IN
         IF strict_filter(flag) /\ matched = <<>>
         THEN [kind |-> "drop", item |-> item2]
         ELSE [kind |-> "forward", item |-> item2]

\* a KeywordMatchingPipeline built for a spider with the given keywords and flag
InitKeyword ==
    /\ queue = <<>> /\ visited = {} /\ max = 0
    /\ last = [op |-> "init", arg |-> <<>>, ret |-> None]
    /\ admitted = [u \in URLS |-> 0]
    /\ CrawlIdle
    /\ \E ks \in SeqsUpTo(KEYWORDS, MaxKeywords), flag \in SpiderFlags :
          /\ conf = [kind |-> "keyword", keywords |-> ks, flag |-> flag]
          /\ pipe = [kind |-> "keyword", keywords |-> KeywordMatching_init(ks)]
    /\ inp = [kind |-> "none"]
    /\ outp = [kind |-> "none"]

\* one call of KeywordMatchingPipeline.process_item; the call leaves
\* self.keywords alone, so one call per pipeline shows every call
KeywordProcessItem ==
    \E title \in Titles, content \in Contents :
        LET item == CrawlItem("a", title, content) IN
        /\ outp.kind = "none"
        /\ inp' = item
        /\ outp' = KeywordMatching_process_item(pipe.keywords, conf.flag, item)
        /\ UNCHANGED <<conf, pipe>>
        /\ UNCHANGED <<queue, visited, max, last, admitted>>
        /\ UNCHANGED crawlVars

NextKeyword == KeywordProcessItem

SpecKeyword == InitKeyword /\ [][NextKeyword]_vars

\* ---------------------------------------------------------------- pipeline stages
\* pipelines.py:142, forgetting to record the url
urls_seen_unrecorded(urls_seen, url) == urls_seen

\* pipelines.py:142  self.urls_seen.add(url)
urls_seen_add(urls_seen, url) == urls_seen \cup {url}

\* pipelines.py:137-143  DuplicateFilterPipeline.process_item
DuplicateFilter_process_item(urls_seen, item) ==
    IF item.url \in urls_seen
    THEN [kind |-> "drop", item |-> item, urls_seen |-> urls_seen]
    ELSE [kind |-> "forward", item |-> item, urls_seen |-> urls_seen_add(urls_seen, item.url)]

\* what DeepSeekAnalysisPipeline.open_spider leaves: no parser (import or
\* construction failed), a parser without API key, a parser with one
AnalyzerStates == {"uninitialised", "disabled", "enabled"}

\* what the parser's calls do for one item when the analyzer is enabled: the
\* API answers both, the API raises in both (which the parser catches), the
\* parser's parse_content raises, its keyword extraction raises
AnalysisOutcomes == {"ok", "api_error", "parse_raises", "keywords_raise"}

\* the API's answer to the analysis prompt
analysis_response(outcome) ==
    IF outcome = "api_error" THEN [kind |-> "error"]
    ELSE [kind |-> "json", data |-> [summary |-> <<"o", "k">>, sentiment |-> POSITIVE]]

\* the API's answer to the keyword prompt
keywords_response(outcome) ==
    IF outcome = "api_error" THEN [kind |-> "error"]
    ELSE [kind |-> "list", keywords |-> << <<"r">> >>]

\* pipelines.py:175-208, without the try block: the exception leaves process_item
analysis_failed_uncaught(item, calls) == [kind |-> "raise", item |-> item, errors |-> 0, calls |-> calls]

\* pipelines.py:207-210  except Exception: spider.logger.error(...); return item
analysis_failed(item, calls) == [kind |-> "forward", item |-> item, errors |-> 1, calls |-> calls]

\* pipelines.py:172, testing only for the parser
analysis_skipped_without_parser(analyzer) == analyzer = "uninitialised"

\* pipelines.py:172  if not self.enabled or not self.parser
analysis_skipped(analyzer) == analyzer # "enabled"

\* pipelines.py:188-194  the analysis merged into the item
with_analysis(item, analysis) ==
    [item EXCEPT !.ai_summary = Get(analysis, "summary", <<>>),
                 !.ai_entities = Get(analysis, "entities", {}),
                 !.ai_topics = Get(analysis, "topics", <<>>),
                 !.ai_sentiment = Get(analysis, "sentiment", NEUTRAL),
                 !.ai_key_points = Get(analysis, "key_points", <<>>),
                 !.ai_structured_data = Get(analysis, "structured_data", <<>>),
                 !.ai_analysis_timestamp = Get(analysis, "analysis_timestamp", "")]

\* pipelines.py:198-203  the AI keywords merged into the item
with_ai_keywords(item, ai_keywords) ==
    [item EXCEPT !.ai_keywords = ai_keywords,
                 !.enhanced_keywords = Range(item.matched_keywords) \cup Range(ai_keywords)]

\* pipelines.py:196-205  process_item from the keyword step on, analysed
\* being the item with the analysis merged in
DeepSeek_keyword_step(use_ai_keywords, outcome, analysed) ==
    IF ~use_ai_keywords
    THEN [kind |-> "forward", item |-> analysed, errors |-> 0, calls |-> 1]
    ELSE IF outcome = "keywords_raise" THEN analysis_failed(analysed, 2)
    ELSE [kind |-> "forward",
          item |-> with_ai_keywords(analysed,
                       extract_keywords_ai(TRUE, analysed.content, keywords_response(outcome))),
          errors |-> 0, calls |-> 2]

\* pipelines.py:170-210  DeepSeekAnalysisPipeline.process_item; calls counts
\* the calls of parse_content and extract_keywords_ai, errors those of
\* spider.logger.error
DeepSeek_process_item(analyzer, use_ai_keywords, item, outcome) ==
    IF analysis_skipped(analyzer)
    THEN [kind |-> "forward", item |-> item, errors |-> 0, calls |-> 0]
    ELSE IF item.content = <<>>
    THEN [kind |-> "forward", item |-> item, errors |-> 0, calls |-> 0]
    ELSE IF outcome = "parse_raises" THEN analysis_failed(item, 1)
    ELSE DeepSeek_keyword_step(use_ai_keywords, outcome,
             with_analysis(item, parse_content(analyzer = "enabled", item.content,
                                               analysis_response(outcome))))

\* ---------------------------------------------------------------- export pipelines
\* pipelines.py:83  the columns of the CSV header open_spider writes
CSV_FIELDS == <<"url", "title", "content_preview", "matched_keywords", "links_count", "depth", "crawl_time">>

\* pipelines.py:218-232  the keys of the enhanced csv_item, in order
ENHANCED_FIELDS == CSV_FIELDS \o <<"ai_summary", "ai_sentiment", "ai_topics", "ai_entities", "ai_keywords">>

\* pipelines.py:120  the default of max_length
PREVIEW_MAX == 200

\* re.sub(r'\s+', ' ', s): every run of blanks becomes one blank
RECURSIVE CollapseBlanks(_)
CollapseBlanks(str) ==
    IF Len(str) <= 1 THEN str
    ELSE IF str[1] = " " /\ str[2] = " " THEN CollapseBlanks(Tail(str))
    ELSE <<str[1]>> \o CollapseBlanks(Tail(str))

\* pipelines.py:120-128  DataExportPipeline._truncate_content
truncate_content(content) ==
    IF content = <<>> THEN <<>>
    ELSE LET c == CollapseBlanks(Strip(content)) IN
         IF Len(c) > PREVIEW_MAX THEN SubSeq(c, 1, PREVIEW_MAX) \o <<".", ".", ".">> ELSE c

\* ', '.join(list)
RECURSIVE Join(_)
Join(list) ==
    IF list = <<>> THEN <<>>
    ELSE IF Len(list) = 1 THEN list[1]
    ELSE list[1] \o <<",", " ">> \o Join(Tail(list))

\* the elements of a collection in the order the item holds them
AsList(S) == CHOOSE l \in [1..Cardinality(S) -> S] : Range(l) = S

\* pipelines.py:102-110  the csv_item of DataExportPipeline.process_item
csv_item(item) ==
    [url |-> item.url,
     title |-> item.title,
     content_preview |-> truncate_content(item.content),
     matched_keywords |-> Join(item.matched_keywords),
     links_count |-> Len(item.links_found),
     depth |-> item.depth,
     crawl_time |-> item.crawl_time]

\* pipelines.py:218-232  the csv_item of EnhancedDataExportPipeline.process_item
enhanced_csv_item(item) ==
    [url |-> item.url,
     title |-> item.title,
     content_preview |-> truncate_content(item.content),
     matched_keywords |-> Join(item.matched_keywords),
     links_count |-> Len(item.links_found),
     depth |-> item.depth,
     crawl_time |-> item.crawl_time,
     ai_summary |-> item.ai_summary,
     ai_sentiment |-> item.ai_sentiment,
     ai_topics |-> Join(item.ai_topics),
     ai_entities |-> Join(AsList(item.ai_entities)),
     ai_keywords |-> Join(item.ai_keywords)]

\* csv.DictWriter.writerow: the cells of one line, in the order of the
\* writer's fieldnames
writerow(fieldnames, d) == [i \in DOMAIN fieldnames |-> d[fieldnames[i]]]

\* csv.DictWriter.writeheader: the line of the writer's fieldnames
writeheader(fieldnames) == fieldnames

\* pipelines.py:66-69  DataExportPipeline.__init__
DataExport_init ==
    [kind |-> "export", phase |-> "new", csv_file |-> <<>>, fieldnames |-> <<>>,
     csv_writer_initialized |-> FALSE, items |-> <<>>, json_files |-> <<>>]

\* pipelines.py:71-88  DataExportPipeline.open_spider: a new CSV file with
\* its header line
DataExport_open_spider(pp) ==
    [pp EXCEPT !.phase = "open", !.fieldnames = CSV_FIELDS,
               !.csv_file = <<writeheader(CSV_FIELDS)>>]

\* pipelines.py:116, putting the newest item first
items_prepend(items, item) == <<item>> \o items

\* pipelines.py:116 and 245  self.items.append(dict(item))
items_append(items, item) == Append(items, item)

\* pipelines.py:100-118  DataExportPipeline.process_item
DataExport_process_item(pp, item) ==
    [pp EXCEPT !.csv_file = Append(@, writerow(pp.fieldnames, csv_item(item))),
               !.items = items_append(@, item)]

\* pipelines.py:216-247  EnhancedDataExportPipeline.process_item: the first
\* call builds a new writer over the open file and writes its header
Enhanced_process_item(pp, item) ==
    LET first == ~pp.csv_writer_initialized
        fieldnames == IF first THEN ENHANCED_FIELDS ELSE pp.fieldnames
        file == IF first THEN Append(pp.csv_file, writeheader(fieldnames)) ELSE pp.csv_file IN
    [pp EXCEPT !.fieldnames = fieldnames,
               !.csv_writer_initialized = TRUE,
               !.csv_file = Append(file, writerow(fieldnames, enhanced_csv_item(item))),
               !.items = items_append(@, item)]

\* pipelines.py:90-98  DataExportPipeline.close_spider: the CSV file is
\* closed, the JSON file is written if there are items
DataExport_close_spider(pp) ==
    [pp EXCEPT !.phase = "closed",
               !.json_files = IF pp.items # <<>> THEN Append(@, pp.items) ELSE @]

\* the items the export pipelines are handed
ExportItems ==
    {CrawlItem(u, title, content) :
        u \in ApiUrls, title \in {<<>>, <<"p">>}, content \in {<<>>, <<"p", " ", " ", "r">>}}
    \cup {with_ai_keywords(with_analysis(CrawlItem("a", <<"p">>, <<"B", "a", "d">>),
                                         fallback_parse(<<"B", "a", "d">>)), << <<"r">> >>)}

\* an export pipeline of either class, not yet opened
InitExport ==
    /\ queue = <<>> /\ visited = {} /\ max = 0
    /\ last = [op |-> "init", arg |-> <<>>, ret |-> None]
    /\ admitted = [u \in URLS |-> 0]
    /\ CrawlIdle
    /\ \E enhanced \in BOOLEAN : conf = [kind |-> "export", enhanced |-> enhanced]
    /\ pipe = DataExport_init
    /\ inp = [kind |-> "none"]
    /\ outp = [kind |-> "none"]

ExportOpenSpider ==
    /\ pipe.phase = "new"
    /\ pipe' = DataExport_open_spider(pipe)
    /\ UNCHANGED <<conf, inp, outp>>
    /\ UNCHANGED <<queue, visited, max, last, admitted>>
    /\ UNCHANGED crawlVars

ExportProcessItem ==
    /\ pipe.phase = "open"
    /\ Len(pipe.items) < MaxItems
    /\ \E item \in ExportItems :
          /\ pipe' = IF conf.enhanced THEN Enhanced_process_item(pipe, item)
                                      ELSE DataExport_process_item(pipe, item)
          /\ inp' = item
          /\ outp' = [kind |-> "forward", item |-> item]
    /\ UNCHANGED conf
    /\ UNCHANGED <<queue, visited, max, last, admitted>>
    /\ UNCHANGED crawlVars

ExportCloseSpider ==
    /\ pipe.phase = "open"
    /\ pipe' = DataExport_close_spider(pipe)
    /\ UNCHANGED <<conf, inp, outp>>
    /\ UNCHANGED <<queue, visited, max, last, admitted>>
    /\ UNCHANGED crawlVars

NextExport == ExportOpenSpider \/ ExportProcessItem \/ ExportCloseSpider

SpecExport == InitExport /\ [][NextExport]_vars

\* pipelines.py:100-118 and 216-247  the export stage of a chain: one CSV
\* line and one stored item per call
Export_process_item(pp, item, enhanced) ==
    [pp EXCEPT !.csv = Append(@, IF enhanced THEN enhanced_csv_item(item) ELSE csv_item(item)),
               !.items = items_append(@, item)]

\* ---------------------------------------------------------------- stage chain
\* run_crawler.py:84-87, with the priorities of the two stages swapped
ChainBasic_export_first == <<"export", "keyword">>

\* run_crawler.py:84-87  ITEM_PIPELINES without DeepSeek, by priority
ChainBasic == <<"keyword", "export">>

\* run_crawler.py:76-80  ITEM_PIPELINES with DeepSeek, by priority
ChainEnhanced == <<"keyword", "deepseek", "export_enhanced">>

\* the chain with the duplicate filter in front (HTMLCrawler/settings.py)
ChainWithDuplicateFilter == <<"duplicate", "keyword", "deepseek", "export_enhanced">>

Chains == {ChainBasic, ChainEnhanced, ChainWithDuplicateFilter}

\* the pipeline objects after the duplicate filter returned r
duplicate_stage(pp, r) ==
    [kind |-> r.kind, item |-> r.item, pipe |-> [pp EXCEPT !.urls_seen = r.urls_seen]]

\* the pipeline objects after the keyword stage returned r
keyword_stage(pp, r) == [kind |-> r.kind, item |-> r.item, pipe |-> pp]

\* the pipeline objects after the analysis stage returned r for item
deepseek_stage(pp, item, outcome, r) ==
    [kind |-> r.kind, item |-> r.item,
     pipe |-> [pp EXCEPT !.errors = @ + r.errors,
                         !.analysed = Append(@, [before |-> item, after |-> r.item, outcome |-> outcome,
                                                 errors |-> r.errors, calls |-> r.calls])]]

\* one stage's process_item on the pipeline objects pp
stage_call(stage, item, pp, cf, outcome) ==
    CASE stage = "duplicate" ->
           duplicate_stage(pp, DuplicateFilter_process_item(pp.urls_seen, item))
      [] stage = "keyword" ->
           keyword_stage(pp, KeywordMatching_process_item(pp.keywords, cf.flag, item))
      [] stage = "deepseek" ->
           deepseek_stage(pp, item, outcome,
                          DeepSeek_process_item(cf.analyzer, cf.use_ai_keywords, item, outcome))
      [] OTHER ->
           [kind |-> "forward", item |-> item,
            pipe |-> Export_process_item(pp, item, stage = "export_enhanced")]

\* the call of a stage for item n recorded in the log
logged(stage, n, r) ==
    [kind |-> r.kind, item |-> r.item,
     pipe |-> [r.pipe EXCEPT !.log = Append(@, [stage |-> stage, n |-> n, kind |-> r.kind])]]

\* the item pipeline manager: the stages in order, each handed the item the
\* previous one returned; the first stage that does not return ends the chain
RECURSIVE run_chain(_, _, _, _, _, _)
after_stage(rest, n, cf, outcome, r) ==
    IF r.kind = "forward" THEN run_chain(rest, r.item, r.pipe, n, cf, outcome) ELSE r

run_chain(chain, item, pp, n, cf, outcome) ==
    IF chain = <<>> THEN [kind |-> "forward", item |-> item, pipe |-> pp]
    ELSE after_stage(Tail(chain), n, cf, outcome,
                     logged(Head(chain), n, stage_call(Head(chain), item, pp, cf, outcome)))

\* the pipeline objects of one crawl after open_spider
InitPipe ==
    /\ queue = <<>> /\ visited = {} /\ max = 0
    /\ last = [op |-> "init", arg |-> <<>>, ret |-> None]
    /\ admitted = [u \in URLS |-> 0]
    /\ CrawlIdle
    /\ \E chain \in Chains, ks \in {<<>>, << <<"P">> >>}, flag \in {"true", "false"},
          analyzer \in AnalyzerStates, ai \in BOOLEAN :
          /\ conf = [kind |-> "chain", chain |-> chain, keywords |-> ks, flag |-> flag,
                     analyzer |-> analyzer, use_ai_keywords |-> ai]
          /\ pipe = [kind |-> "chain", keywords |-> KeywordMatching_init(ks), urls_seen |-> {},
                     csv |-> <<>>, items |-> <<>>, errors |-> 0, analysed |-> <<>>,
                     log |-> <<>>, hist |-> <<>>]
    /\ inp = [kind |-> "none"]
    /\ outp = [kind |-> "none"]

\* the spider yields an item and the pipeline manager runs it through the chain
EngineDelivers(item, r) ==
    /\ inp' = item
    /\ outp' = [kind |-> r.kind, item |-> r.item]
    /\ pipe' = r.pipe

EngineProcessItem ==
    /\ Len(pipe.hist) < MaxItems
    /\ \E u \in ApiUrls, content \in {<<>>, <<"p">>, <<"b", "a", "d">>},
          outcome \in (IF conf.analyzer = "enabled" /\ "deepseek" \in Range(conf.chain)
                       THEN AnalysisOutcomes ELSE {"ok"}) :
          EngineDelivers(CrawlItem(u, <<>>, content),
                         run_chain(conf.chain, CrawlItem(u, <<>>, content),
                                   [pipe EXCEPT !.hist = Append(@, [url |-> u, content |-> content,
                                                                    outcome |-> outcome])],
                                   Len(pipe.hist) + 1, conf, outcome))
    /\ UNCHANGED conf
    /\ UNCHANGED <<queue, visited, max, last, admitted>>
    /\ UNCHANGED crawlVars

NextPipe == EngineProcessItem

SpecPipe == InitPipe /\ [][NextPipe]_vars

\* ---------------------------------------------------------------- relevance score
\* data_processor.py:28  the divisor of the score
DIVISOR == 5000

\* content lengths around the two ends of the score's range
Lengths == (0..MaxLenOffset) \cup ((DIVISOR - MaxLenOffset)..(DIVISOR + MaxLenOffset)) \cup {2 * DIVISOR}

\* data_processor.py:28, without the cap
calculate_relevance_score_uncapped(len) == len

\* data_processor.py:27-28  DataProcessor.calculate_relevance_score, of a
\* content of the given length, in units of 1/DIVISOR:
\* min(1.0, len(content) / 5000.0)
calculate_relevance_score(len) == IF DIVISOR <= len THEN DIVISOR ELSE len

\* two contents awaiting their score
InitScore ==
    /\ queue = <<>> /\ visited = {} /\ max = 0
    /\ last = [op |-> "init", arg |-> <<>>, ret |-> None]
    /\ admitted = [u \in URLS |-> 0]
    /\ CrawlIdle
    /\ conf = [kind |-> "score"]
    /\ pipe = [kind |-> "score"]
    /\ \E a \in Lengths, b \in Lengths : inp = [kind |-> "score", a |-> a, b |-> b]
    /\ outp = [kind |-> "none"]

CalculateRelevanceScore ==
    /\ outp.kind = "none"
    /\ outp' = [kind |-> "score", a |-> calculate_relevance_score(inp.a),
                b |-> calculate_relevance_score(inp.b)]
    /\ UNCHANGED <<conf, pipe, inp>>
    /\ UNCHANGED <<queue, visited, max, last, admitted>>
    /\ UNCHANGED crawlVars

NextScore == CalculateRelevanceScore

SpecScore == InitScore /\ [][NextScore]_vars

\* ---------------------------------------------------------------- parse_content
\* the words the contents handed to the parser are made of
TokGood == <<"g", "o", "o", "d">>

TokBad == <<"b", "a", "d">>

TokCapital == <<"B", "a", "d">>

TokBlank == <<" ">>

TokStop == <<".">>

Tokens == {TokGood, TokBad, TokCapital, TokBlank, TokStop}

RECURSIVE Flatten(_)
Flatten(ss) == IF ss = <<>> THEN <<>> ELSE Head(ss) \o Flatten(Tail(ss))

ParserContents == {Flatten(ts) : ts \in SeqsUpTo(Tokens, MaxWords)}

\* the lines the non-JSON responses are made of
LineSentimentPositive == <<"S", "e", "n", "t", "i", "m", "e", "n", "t", ":", " ", "P", "o", "s", "i", "t", "i", "v", "e">>

LineSentimentMixed == <<"s", "e", "n", "t", "i", "m", "e", "n", "t", ":", " ", "m", "i", "x", "e", "d">>

LineSummary == <<"s", "u", "m", "m", "a", "r", "y", ":", " ", "o", "k">>

LinePlain == <<"o", "k">>

TextLines == {LineSentimentPositive, LineSentimentMixed, LineSummary, LinePlain}

MIXED == <<"m", "i", "x", "e", "d">>

\* the JSON objects the API may answer with
JsonObjects ==
    {[summary |-> <<"o", "k">>, sentiment |-> NEGATIVE],
     [sentiment |-> MIXED],
     [summary |-> <<"o", "k">>]}

\* what the API call of parse_content does: it raises, it answers with a
\* JSON object, it answers with text holding none
ApiResponses ==
    {[kind |-> "error"]}
    \cup {[kind |-> "json", data |-> d] : d \in JsonObjects}
    \cup {[kind |-> "text", lines |-> ls] : ls \in SeqsUpTo(TextLines, MaxLines)}

\* a parser built with or without an API key
InitParser ==
    /\ queue = <<>> /\ visited = {} /\ max = 0
    /\ last = [op |-> "init", arg |-> <<>>, ret |-> None]
    /\ admitted = [u \in URLS |-> 0]
    /\ CrawlIdle
    /\ \E enabled \in BOOLEAN : conf = [kind |-> "parser", enabled |-> enabled]
    /\ pipe = [kind |-> "parser"]
    /\ inp = [kind |-> "none"]
    /\ outp = [kind |-> "none"]

ParseContent ==
    /\ outp.kind = "none"
    /\ \E content \in ParserContents, resp \in ApiResponses :
          /\ inp' = [kind |-> "parse", content |-> content, resp |-> resp]
          /\ outp' = [kind |-> "result", result |-> parse_content(conf.enabled, content, resp)]
    /\ UNCHANGED <<conf, pipe>>
    /\ UNCHANGED <<queue, visited, max, last, admitted>>
    /\ UNCHANGED crawlVars

NextParser == ParseContent

SpecParser == InitParser /\ [][NextParser]_vars

\* ---------------------------------------------------------------- is_valid_url
\* the characters of a network location: two letters and the label separator
HostChars == {"d", "e", "."}

\* no label of the host name is empty
NoEmptyLabel(h) ==
    /\ h # <<>> => (h[1] # "." /\ h[Len(h)] # ".")
    /\ \A i \in 1..(Len(h) - 1) : ~(h[i] = "." /\ h[i + 1] = ".")

\* the network locations urlparse can give back: none (a URL without //),
\* or a host name (no port, no user info)
Netlocs == {h \in SeqsUpTo(HostChars, MaxHostLen) : NoEmptyLabel(h)}

\* the schemes urlparse can give back: none, or http
Schemes == {<<>>, <<"h", "t", "t", "p">>}

DomainD == <<"d">>
DomainE == <<"e", ".", "e">>

\* html_crawler.py:19, 63-64  values of allowed_domains
AllowedDomainLists == {<<>>, <<DomainD>>, <<DomainE, DomainD>>}

\* html_crawler.py:143-157  is_valid_url of a URL that urlparse splits into
\* scheme and netloc: both must be non-empty, and with allowed domains one
\* of them must occur in netloc (`domain in parsed.netloc`)
is_valid_url(allowed_domains, scheme, netloc) ==
    IF scheme = <<>> \/ netloc = <<>> THEN FALSE
    ELSE IF allowed_domains # <<>>
         THEN \E i \in DOMAIN allowed_domains : Contains(allowed_domains[i], netloc)
    ELSE TRUE

\* a spider with its allowed domains and a URL awaiting the test
InitUrl ==
    /\ queue = <<>> /\ visited = {} /\ max = 0
    /\ last = [op |-> "init", arg |-> <<>>, ret |-> None]
    /\ admitted = [u \in URLS |-> 0]
    /\ CrawlIdle
    /\ \E ds \in AllowedDomainLists : conf = [kind |-> "spider", allowed_domains |-> ds]
    /\ pipe = [kind |-> "spider"]
    /\ \E sc \in Schemes, nl \in Netlocs : inp = [kind |-> "url", scheme |-> sc, netloc |-> nl]
    /\ outp = [kind |-> "none"]

\* html_crawler.py:123  a call is_valid_url(absolute_url)
IsValidUrl ==
    /\ outp.kind = "none"
    /\ outp' = [kind |-> "valid", ret |-> is_valid_url(conf.allowed_domains, inp.scheme, inp.netloc)]
    /\ UNCHANGED <<conf, pipe, inp>>
    /\ UNCHANGED <<queue, visited, max, last, admitted>>
    /\ UNCHANGED crawlVars

NextUrl == IsValidUrl

SpecUrl == InitUrl /\ [][NextUrl]_vars

\* ---------------------------------------------------------------- InputSanitizer
\* a text is a sequence of pieces: opening and closing tags, the five
\* characters </\1> and a character of plain text
OpenScript == "<script>"
CloseScript == "</script>"
OpenIframe == "<iframe>"
CloseIframe == "</iframe>"
\* the characters < / \ 1 >
BackslashOne == "</\\1>"
PlainText == "x"

HtmlPieces == {OpenScript, CloseScript, OpenIframe, CloseIframe, BackslashOne, PlainText}

HtmlTexts == SeqsUpTo(HtmlPieces, MaxHtmlLen)

\* input_sanitizer.py:8  `<(script|iframe)[^>]*>`, the start of a match
TAG_RE_opens(piece) == piece \in {OpenScript, OpenIframe}

\* input_sanitizer.py:8  `</\\1>` in a raw string: an escaped backslash and
\* the digit 1, so the match ends at the characters </\1>, not at the
\* closing tag of the element that was opened
TAG_RE_closes(piece) == piece = BackslashOne

\* input_sanitizer.py:8  `.*?` with (?s): the match ends at the nearest
\* closing piece behind position 1; 0 if there is none
TAG_RE_match_end(text) ==
    LET ends == {j \in 2..Len(text) : TAG_RE_closes(text[j])} IN
    IF text # <<>> /\ TAG_RE_opens(text[1]) /\ ends # {} THEN SetMin(ends) ELSE 0

\* input_sanitizer.py:10, 12  TAG_RE.sub("", text): leftmost matches, one
\* after the other, are replaced by nothing
RECURSIVE TAG_RE_sub(_)
TAG_RE_sub(text) ==
    IF text = <<>> THEN <<>>
    ELSE IF TAG_RE_match_end(text) > 0
         THEN TAG_RE_sub(SubSeq(text, TAG_RE_match_end(text) + 1, Len(text)))
    ELSE <<Head(text)>> \o TAG_RE_sub(Tail(text))

\* input_sanitizer.py:9-10
strip_scripts(text) == TAG_RE_sub(text)

\* input_sanitizer.py:11-12
remove_iframes(text) == TAG_RE_sub(text)

\* data_processor.py:18-19
clean_text(text) == strip_scripts(remove_iframes(text))

\* a text awaiting clean_text
InitClean ==
    /\ queue = <<>> /\ visited = {} /\ max = 0
    /\ last = [op |-> "init", arg |-> <<>>, ret |-> None]
    /\ admitted = [u \in URLS |-> 0]
    /\ CrawlIdle
    /\ conf = [kind |-> "clean"]
    /\ pipe = [kind |-> "clean"]
    /\ \E text \in HtmlTexts : inp = [kind |-> "clean", text |-> text]
    /\ outp = [kind |-> "none"]

\* data_processor.py:31  clean_text applied to a text, and to its own result
CleanText ==
    /\ outp.kind \in {"none", "clean"}
    /\ outp' = [kind |-> IF outp.kind = "none" THEN "clean" ELSE "cleaned_again",
                ret |-> clean_text(IF outp.kind = "none" THEN inp.text ELSE outp.ret)]
    /\ UNCHANGED <<conf, pipe, inp>>
    /\ UNCHANGED <<queue, visited, max, last, admitted>>
    /\ UNCHANGED crawlVars

NextClean == CleanText

SpecClean == InitClean /\ [][NextClean]_vars

\* ---------------------------------------------------------------- properties
\* the urls handed to spider.parse, in order
FetchedUrls == [i \in DOMAIN fetched |-> fetched[i].url]

\* the rows of the fetches that succeeded, in fetch order
RECURSIVE RowsOfOk(_)
RowsOfOk(f) ==
    IF f = <<>> THEN <<>>
    ELSE (IF Head(f).ok THEN <<[url |-> Head(f).url]>> ELSE <<>>) \o RowsOfOk(Tail(f))

\* C1 (as claimed): under any sequence of add_urls calls no URL occurs twice
\* in queue at the same time.
C1_NoDuplicateInQueue ==
    \A i, j \in DOMAIN queue : i # j => queue[i] # queue[j]

\* C2: a URL that is in visited when add_urls is called is not appended to
\* queue by that call (no step increases the number of queue entries of a
\* URL that is in visited).
C2_VisitedNotEnqueued ==
    [][\A u \in visited : Count(queue', u) <= Count(queue, u)]_vars

\* add_urls was called with a visited URL in its argument and queue does not hold it
C2_Witness ==
    /\ last.op = "add_urls"
    /\ \E i \in DOMAIN last.arg : last.arg[i] \in visited /\ Count(queue, last.arg[i]) = 0

\* C3: in every reachable state of a URLManager built with max_urls = M >= 0,
\* len(queue) <= M.
C3_CapacityBound == Len(queue) <= max

\* add_urls refused a URL that is not visited because the queue was full
C3_Witness ==
    /\ last.op = "add_urls"
    /\ Len(queue) = max
    /\ \E i \in DOMAIN last.arg : last.arg[i] \notin visited /\ Count(queue, last.arg[i]) = 0

\* C4 (as claimed): no URL is in queue and in visited at the same time.
C4_QueueVisitedDisjoint == Range(queue) \cap visited = {}

\* C5 (as claimed): a URL is admitted to the queue at most once.
C5_EnqueuedAtMostOnce == \A u \in URLS : admitted[u] <= 1

\* C6 (as claimed): when start_crawl returns, every URL the loop popped and
\* handed to the spider is in url_manager.visited.
C6_PoppedAreVisited ==
    pc = "done" => \A i \in DOMAIN fetched : fetched[i].url \in visited

C9_StopExitsLoop ==
    (/\ pc = "done"
     /\ stopAt = [n |-> 1, at |-> "loop"]
     /\ SeededCount >= 2
     /\ fetched[1].ok)
        => (Len(fetched) = 1 /\ Len(rows) = 1 /\ saved = <<rows>>)

\* C10 (as claimed): when start_crawl returns, queue is empty and every URL
\* admitted to the queue has been handed to the fetcher.
C10_ExitOnlyWhenEmpty ==
    pc = "done" =>
        /\ queue = <<>>
        /\ \A u \in URLS : Count(FetchedUrls, u) = admitted[u]

\* the requested fields are missing from the record the analyzer returned
InvalidRecord(f) == f.ok /\ f.analyzer = "missing" /\ ~validate(analyzer_data("missing", fields), fields)

\* C11 (as claimed): an item whose parse_data call raises is still returned by
\* process_item and start_crawl appends its row.
C11_FailingAnalyzerKeepsItem ==
    \A i \in DOMAIN fetched :
        (fetched[i].ok /\ fetched[i].analyzer = "raises") => fetched[i].n = 1

\* C13 (as claimed): an item whose processed record lacks a required field
\* is dropped by process_item and no row is appended for it.
C13_InvalidRecordDropped ==
    \A i \in DOMAIN fetched : InvalidRecord(fetched[i]) => fetched[i].n = 0

\* C14 (as claimed): no failure while fetching or parsing a page or while
\* processing an item leaves start_crawl as an exception.
C14_NoFailureEscapes == pc # "raised"

\* a process_item call has been made
Processed == outp.kind \in {"forward", "drop"}

\* k occurs somewhere in text: text = pre \o k \o post
Occurs(k, text) ==
    \E i \in 0..Len(text) : \E j \in i..Len(text) : SubSeq(text, i + 1, j) = k

\* the configured keywords, lower-cased, that occur in the lower-cased
\* title + " " + content of the item handed in
ExpectedMatches ==
    SelectSeq([i \in DOMAIN conf.keywords |-> Lower(conf.keywords[i])],
              LAMBDA k : Occurs(k, Lower(inp.title \o <<" ">> \o inp.content)))

\* C16: every element of a processed item's matched_keywords is,
\* case-insensitively, one of the configured keywords.
C16_MatchedSubsetOfConfigured ==
    Processed =>
        \A i \in DOMAIN outp.item.matched_keywords :
            \E j \in DOMAIN conf.keywords :
                Lower(conf.keywords[j]) = Lower(outp.item.matched_keywords[i])

\* a keyword configured in upper case was matched
C16_Witness ==
    /\ Processed
    /\ outp.item.matched_keywords # <<>>
    /\ \E j \in DOMAIN conf.keywords :
          /\ conf.keywords[j] # Lower(conf.keywords[j])
          /\ Lower(conf.keywords[j]) \in Range(outp.item.matched_keywords)

\* C17: matched_keywords is exactly the sequence of configured keywords,
\* lower-cased and in configured order, that occur as a substring of
\* lower(title + " " + content).
C17_MatchedExactly ==
    Processed => outp.item.matched_keywords = ExpectedMatches

\* keywords ["p", "r"] on title "P" and content "p": only "p" is matched
C17_Witness ==
    /\ Processed
    /\ conf.keywords = << <<"p">>, <<"r">> >>
    /\ inp.title = <<"P">> /\ inp.content = <<"p">>
    /\ outp.item.matched_keywords = << <<"p">> >>

\* C18 (as claimed): for every keyword list, the empty one included, the
\* item is dropped iff the strict filter is on and no configured keyword
\* matches; otherwise it is forwarded with matched_keywords set.
C18_DropIffStrictAndNoMatch ==
    Processed =>
        /\ outp.kind = "drop" <=> (conf.flag = "true" /\ ExpectedMatches = <<>>)
        /\ outp.item.matched_keywords = ExpectedMatches

\* C18 (amended): with a non-empty keyword list the item is dropped iff the
\* strict filter is on and no configured keyword matches, and otherwise
\* forwarded with matched_keywords set to the matches; with an empty keyword
\* list the item is forwarded unchanged whatever the strict filter says.
C18_DropIffStrictNoMatchAndKeywords ==
    Processed =>
        IF conf.keywords = <<>>
        THEN outp = [kind |-> "forward", item |-> inp]
        ELSE /\ outp.kind = "drop" <=> (conf.flag = "true" /\ ExpectedMatches = <<>>)
             /\ outp.item = [inp EXCEPT !.matched_keywords = ExpectedMatches]

\* the strict filter dropped an item that matches none of the keywords
C18_Witness ==
    /\ outp.kind = "drop"
    /\ conf.keywords # <<>>
    /\ conf.flag = "true"
    /\ outp.item.matched_keywords = <<>>

\* the calls of one stage, in order
StageLog(stage) == SelectSeq(pipe.log, LAMBDA e : e.stage = stage)

ExportStages == {"export", "export_enhanced"}

\* C12: DeepSeekAnalysisPipeline.process_item returns the item and never
\* raises, whatever the analyzer's state and whatever its calls do; every
\* item handed to it reaches the stage after it.
C12_AnalysisNeverDropsOrRaises ==
    \A i \in DOMAIN pipe.log :
        pipe.log[i].stage = "deepseek" =>
            /\ pipe.log[i].kind = "forward"
            /\ i < Len(pipe.log)
            /\ pipe.log[i + 1] = [stage |-> "export_enhanced", n |-> pipe.log[i].n, kind |-> "forward"]

\* an enabled analyzer raised in parse_content for an item that was then exported
C12_Witness ==
    /\ conf.analyzer = "enabled"
    /\ pipe.errors > 0
    /\ \E i \in DOMAIN pipe.log :
          /\ pipe.log[i].stage = "deepseek"
          /\ pipe.hist[pipe.log[i].n].outcome = "parse_raises"
          /\ pipe.hist[pipe.log[i].n].content # <<>>
          /\ pipe.items # <<>>

\* C15: an item dropped by a stage is seen by no stage after it; an item the
\* keyword or duplicate stage dropped is never handed to the analysis stage
\* nor to an export stage.
C15_DroppedNeverSeenLater ==
    \A i \in DOMAIN pipe.log :
        pipe.log[i].kind = "drop" =>
            /\ \A j \in DOMAIN pipe.log : j > i => pipe.log[j].n # pipe.log[i].n
            /\ \A j \in DOMAIN pipe.log :
                  pipe.log[j].n = pipe.log[i].n =>
                      pipe.log[j].stage \notin ExportStages \cup {"deepseek"}

\* the keyword stage has dropped one item and the duplicate stage another
C15_Witness ==
    /\ \E i \in DOMAIN pipe.log : pipe.log[i].stage = "keyword" /\ pipe.log[i].kind = "drop"
    /\ \E i \in DOMAIN pipe.log : pipe.log[i].stage = "duplicate" /\ pipe.log[i].kind = "drop"
    /\ Len(pipe.items) < Len(pipe.hist)

\* C19: the duplicate filter forwards an item iff no earlier item had the
\* same url, and urls_seen is the set of the urls handed to it so far.
C19_ForwardIffUrlNew ==
    pipe.kind = "chain" /\ conf.chain = ChainWithDuplicateFilter =>
        /\ \A i \in DOMAIN pipe.log :
              pipe.log[i].stage = "duplicate" =>
                  (pipe.log[i].kind = "forward" <=>
                      \A m \in 1..(pipe.log[i].n - 1) : pipe.hist[m].url # pipe.hist[pipe.log[i].n].url)
        /\ pipe.urls_seen = {pipe.hist[m].url : m \in DOMAIN pipe.hist}
        /\ Len(StageLog("duplicate")) = Len(pipe.hist)

\* the filter forwarded a url and dropped its second occurrence
C19_Witness ==
    /\ conf.chain = ChainWithDuplicateFilter
    /\ \E i, j \in DOMAIN pipe.log :
          /\ i < j
          /\ pipe.log[i].stage = "duplicate" /\ pipe.log[i].kind = "forward"
          /\ pipe.log[j].stage = "duplicate" /\ pipe.log[j].kind = "drop"
          /\ pipe.hist[pipe.log[i].n].url = pipe.hist[pipe.log[j].n].url

\* C20: the relevance score is min(1, len/5000): within [0,1], equal to 1
\* from length 5000 on, and non-decreasing in the content's length (scores
\* are in units of 1/DIVISOR).
C20_ScoreRangeAndMonotone ==
    outp.kind = "score" =>
        /\ 0 <= outp.a /\ outp.a <= DIVISOR
        /\ (inp.a >= DIVISOR => outp.a = DIVISOR)
        /\ (inp.a < DIVISOR => outp.a = inp.a)
        /\ (inp.a < inp.b => outp.a <= outp.b)

\* a content below the divisor scored against one beyond it
C20_Witness ==
    /\ outp.kind = "score"
    /\ inp.a < DIVISOR /\ inp.a > 0
    /\ inp.b > DIVISOR
    /\ outp.a < outp.b

\* C21: with the analyzer disabled or never initialised, the analysis stage
\* forwards the item with every field unchanged and calls neither
\* parse_content nor extract_keywords_ai.
C21_DisabledForwardsUntouched ==
    pipe.kind = "chain" /\ conf.analyzer # "enabled" =>
        \A i \in DOMAIN pipe.analysed :
            /\ pipe.analysed[i].after = pipe.analysed[i].before
            /\ pipe.analysed[i].calls = 0
            /\ StageLog("deepseek")[i].kind = "forward"

\* a disabled analyzer was handed an item with content, which was exported
C21_Witness ==
    /\ pipe.kind = "chain" /\ conf.analyzer = "disabled"
    /\ \E i \in DOMAIN pipe.analysed :
          /\ pipe.analysed[i].before.content # <<>>
          /\ pipe.analysed[i].after \in Range(pipe.items)

\* the calls of the analysis stage in which an analysis call failed: the API
\* raised, parse_content raised, or the keyword extraction raised
FailedAnalyses ==
    {i \in DOMAIN pipe.analysed :
        /\ pipe.analysed[i].calls > 0
        /\ \/ pipe.analysed[i].outcome \in {"api_error", "parse_raises"}
           \/ pipe.analysed[i].outcome = "keywords_raise" /\ conf.use_ai_keywords}

\* C22: when the analyzer is enabled and an analysis call fails, the item is
\* forwarded with all its fields, the ai_* fields included, as they were
\* before the stage, and the failure is reported through the spider logger.
C22_FailureForwardsUntouched ==
    pipe.kind = "chain" /\ conf.analyzer = "enabled" =>
        \A i \in FailedAnalyses :
            /\ pipe.analysed[i].after = pipe.analysed[i].before
            /\ pipe.analysed[i].errors = 1

RequiredKeys == {"summary", "entities", "topics", "sentiment", "key_points", "structured_data"}

\* C23: with the analyzer disabled, parse_content returns for every content a
\* result holding the six required keys, with a sentiment among positive,
\* neutral and negative.
C23_FallbackHasKeysAndSentiment ==
    outp.kind = "result" /\ ~conf.enabled =>
        /\ RequiredKeys \subseteq DOMAIN outp.result
        /\ outp.result.sentiment \in SENTIMENTS

\* a disabled parser rated a content naming a negative word
C23_Witness ==
    /\ outp.kind = "result" /\ ~conf.enabled
    /\ Contains(TokBad, Lower(inp.content))
    /\ outp.result.sentiment = NEGATIVE

\* C24: on every path of parse_content that returns a result, the result's
\* sentiment is one of positive, neutral, negative.
C24_SentimentEnumerated ==
    outp.kind = "result" => outp.result.sentiment \in SENTIMENTS

\* C25: get_crawl_status returns a snapshot of the number of active spiders,
\* the number of rows accumulated so far and the current state; after a run
\* has finished the state is terminal and no spider is counted as active.
C25_StatusSnapshot ==
    outp.kind = "status" =>
        /\ {"spiders", "rows", "state"} \subseteq DOMAIN outp.ret
        /\ (outp.at = "done" => outp.ret.spiders = 0)

\* the CSV file read back: its first line names the columns, every further
\* line is one record
read_csv(file) == [header |-> Head(file), records |-> Tail(file)]

\* C26: for both export pipelines, after open_spider, N process_item calls
\* and close_spider the CSV file is one header line whose columns are those
\* of the written rows, followed by the N rows in processing order, so
\* reading it back yields N records.
C26_CsvRoundTrip ==
    pipe.kind = "export" /\ pipe.phase = "closed" =>
        LET csv == read_csv(pipe.csv_file)
            fieldnames == IF conf.enhanced /\ pipe.items # <<>> THEN ENHANCED_FIELDS ELSE CSV_FIELDS IN
        /\ Len(csv.records) = Len(pipe.items)
        /\ csv.header = fieldnames
        /\ \A i \in DOMAIN csv.records :
              /\ Len(csv.records[i]) = Len(csv.header)
              /\ i \in DOMAIN pipe.items
              /\ csv.records[i] =
                    writerow(fieldnames, IF conf.enhanced THEN enhanced_csv_item(pipe.items[i])
                                                          ELSE csv_item(pipe.items[i]))

\* C27: for every N >= 0, after open_spider, N process_item calls and
\* close_spider there is one JSON artifact holding exactly the N processed
\* items in processing order, an empty array when N = 0.
C27_JsonHoldsAllItems ==
    pipe.kind = "export" /\ pipe.phase = "closed" => pipe.json_files = <<pipe.items>>

\* C27, as the code has it: for N >= 1 there is one JSON artifact holding the
\* N processed items in processing order; for N = 0 no JSON artifact is
\* written.
C27_JsonHoldsAllItemsIfAny ==
    pipe.kind = "export" /\ pipe.phase = "closed" =>
        /\ pipe.json_files = IF Len(pipe.items) >= 1 THEN <<pipe.items>> ELSE <<>>
        /\ outp.kind = "forward" => pipe.items # <<>> /\ pipe.items[Len(pipe.items)] = inp

\* two different items were exported and the pipeline closed
C27_Witness ==
    /\ pipe.kind = "export" /\ pipe.phase = "closed"
    /\ Len(pipe.items) = 2 /\ pipe.items[1] # pipe.items[2]
    /\ pipe.json_files = <<pipe.items>>

\* the stages item n was handed to, in order
StagesOf(n) ==
    LET l == SelectSeq(pipe.log, LAMBDA e : e.n = n) IN [i \in DOMAIN l |-> l[i].stage]

\* the items that reached an export stage
Exported == {pipe.log[i].n : i \in {j \in DOMAIN pipe.log : pipe.log[j].stage \in ExportStages}}

\* C28: in the chains run_crawler.py configures, every item that reaches the
\* export has passed the duplicate filter, the keyword matcher, the relevance
\* scorer and the content analyzer, each once and in this order, so that no
\* two exported items have the same url.
C28_ExportedPassedAllStages ==
    pipe.kind = "chain" /\ conf.chain \in {ChainBasic, ChainEnhanced} =>
        /\ \A n \in Exported :
              \E e \in ExportStages : StagesOf(n) = <<"duplicate", "keyword", "relevance", "deepseek", e>>
        /\ \A n1, n2 \in Exported : pipe.hist[n1].url = pipe.hist[n2].url => n1 = n2

\* the distinct URLs ever admitted to the queue
EverAdmitted == {u \in URLS : admitted[u] > 0}

\* C30: the cap limits only the current queue length: len(queue) <= max holds
\* throughout, and the number of distinct URLs ever admitted exceeds max only
\* after URLs have been dequeued, which sequences of add_urls and
\* get_next_url reach.
C30_CapOnQueueLengthOnly ==
    /\ Len(queue) <= max
    /\ Cardinality(EverAdmitted) > max => SeededCount > Len(queue)

\* with max_urls = 1 two distinct URLs have been admitted, one after the
\* other was dequeued
C30_Witness ==
    /\ max = 1
    /\ Cardinality(EverAdmitted) > max
    /\ Len(queue) = 1
    /\ last.op = "add_urls"

\* C29: with workers calling add_urls and get_next_url on one URLManager, the
\* test and the append of add_urls being separate steps, the queue never
\* holds more than max URLs and no URL is enqueued twice.
C29_InvariantsUnderConcurrency ==
    /\ Len(queue) <= max
    /\ \A u \in URLS : admitted[u] <= 1

\* p is an initial part of s
IsPrefix(p, s) == Len(p) <= Len(s) /\ SubSeq(s, 1, Len(p)) = p

\* C31: get_next_url returns the queued URLs oldest first (add_urls only
\* appends behind the entries already queued, get_next_url returns the entry
\* at the front), returns None iff the queue is empty, removes only the
\* returned entry and leaves visited unchanged.
C31_GetNextUrlFifo ==
    [][/\ last'.op = "add_urls" => IsPrefix(queue, queue')
       /\ last'.op = "get_next_url" =>
            /\ (last'.ret = None) <=> (queue = <<>>)
            /\ queue # <<>> => queue = <<last'.ret>> \o queue'
            /\ queue = <<>> => queue' = <<>>
            /\ visited' = visited]_vars

\* "a" was admitted before "b"; get_next_url returned "a", left "b" queued
\* and did not mark "a" visited
C31_Witness ==
    /\ last.op = "get_next_url"
    /\ last.ret = "a"
    /\ admitted["a"] = 1 /\ admitted["b"] = 1
    /\ queue = <<"b">>
    /\ "a" \notin visited

\* C32: should_visit(u) returns true iff u is not in visited and fewer URLs
\* than the cap are in visited; the call changes neither queue nor visited.
C32_ShouldVisit ==
    [][last'.op = "should_visit" =>
          /\ last'.ret <=> ((\A w \in visited : w # last'.arg[1]) /\ Cardinality(visited) < max)
          /\ queue' = queue
          /\ visited' = visited]_vars

\* should_visit refused a URL that is not visited because the number of
\* visited URLs had reached the cap, while the queue was not full
C32_Witness ==
    /\ last.op = "should_visit"
    /\ ~last.ret
    /\ last.arg[1] \notin visited
    /\ Cardinality(visited) = max
    /\ Len(queue) < max

\* C33 (as claimed): the rows accumulated and exported by one start_crawl
\* run have pairwise different urls, for every seed list.
C33_RowUrlsUnique ==
    /\ \A i, j \in DOMAIN rows : i # j => rows[i].url # rows[j].url
    /\ \A k \in DOMAIN saved :
          \A i, j \in DOMAIN saved[k] : i # j => saved[k][i].url # saved[k][j].url

\* C34: a save_data call that raises while writing the final artifact is not
\* swallowed: the exception leaves start_crawl, which returns no result.
C34_ExportFailurePropagates ==
    (outp.kind = "save_data" /\ outp.ret = "raised") => pc = "export_raised"

\* a run that collected rows called save_data, which raised
C34_Witness ==
    /\ outp.kind = "save_data"
    /\ outp.ret = "raised"
    /\ rows # <<>>
    /\ saved = <<rows>>
    /\ pc = "export_raised"

\* the queue entries admitted at seeding, in the order of their admission
\* (start_crawl seeds an empty queue; visited and max do not change in a run)
SeedsAdmitted == add_urls(<<>>, visited, max, last.arg)

\* C35 (as claimed): nothing is put back into the frontier after seeding;
\* while the loop runs, the URLs fetched so far followed by the queue are the
\* entries admitted at seeding, and when start_crawl returns the fetch
\* attempts are exactly those entries, in the order of their admission.
C35_FetchedAreAdmittedInOrder ==
    /\ pc = "loop" => FetchedUrls \o queue = SeedsAdmitted
    /\ pc = "done" => FetchedUrls = SeedsAdmitted

Min(a, b) == IF a <= b THEN a ELSE b

\* start_crawl has ended, by its return or by an exception
Terminated == pc \in {"done", "raised", "export_raised"}

\* C36: for every seed list and every combination of fetch and processing
\* outcomes a start_crawl call ends, after at most min(len(seeds), max_urls)
\* loop iterations that fetch a URL.
C36_StartCrawlTerminates ==
    /\ [](pc # "idle" => Len(fetched) <= Min(Len(last.arg), max))
    /\ (pc = "loop") ~> Terminated

\* a run seeded with more URLs than the cap has returned after max_urls
\* iterations, one of which had a failing fetch
C36_Witness ==
    /\ pc = "done"
    /\ max > 0
    /\ Len(last.arg) > max
    /\ Len(fetched) = max
    /\ \E i \in DOMAIN fetched : ~fetched[i].ok

\* host is the domain itself or a subdomain of it
HostWithin(host, domain) ==
    \/ host = domain
    \/ /\ Len(host) > Len(domain) + 1
       /\ SubSeq(host, Len(host) - Len(domain), Len(host)) = <<".">> \o domain

\* C37 (as claimed): with allowed domains configured, is_valid_url returns
\* True only for a URL with a scheme and a host that is an allowed domain or
\* a subdomain of one; a host that merely contains an allowed domain inside
\* the name of a different domain gets False.
C37_ValidOnlyWithinAllowed ==
    (outp.kind = "valid" /\ conf.allowed_domains # <<>>) =>
        (outp.ret =>
            /\ inp.scheme # <<>>
            /\ inp.netloc # <<>>
            /\ \E i \in DOMAIN conf.allowed_domains :
                  HostWithin(inp.netloc, conf.allowed_domains[i]))

\* text holds a <script>...</script> or an <iframe>...</iframe> block
HasBlock(text) ==
    \E i, j \in DOMAIN text :
        /\ i < j
        /\ \/ text[i] = OpenScript /\ text[j] = CloseScript
           \/ text[i] = OpenIframe /\ text[j] = CloseIframe

\* C38 (as claimed): the result of clean_text holds no <script>...</script>
\* and no <iframe>...</iframe> block, and cleaning it again changes nothing.
C38_CleanTextRemovesBlocks ==
    /\ outp.kind \in {"clean", "cleaned_again"} => ~HasBlock(outp.ret)
    /\ outp.kind = "clean" => clean_text(outp.ret) = outp.ret

====
